---- MODULE Spec2Model ----
(***************************************************************************)
(* Model of ddns_updater.py: update_dns_ip and get_public_ip, run by one   *)
(* or two processes against one Cloudflare DNS record and the ifconfig.co  *)
(* lookup service.  Each outbound call is one atomic step; the local code  *)
(* between two calls belongs to the step of the call it follows.           *)
(***************************************************************************)
EXTENDS Integers, FiniteSets, Sequences, TLC

\* ------------------------------------------------------------------ bounds
MaxRuns == 2          \* invocations of update_dns_ip in one behaviour
MaxIpChanges == 1     \* changes of the host's public IP in one behaviour

\* ------------------------------------------------------------- value sets
Procs == {"p1", "p2"}
IPs == {"1.2.3.4", "5.6.7.8"}
RecordIds == {"r1", "r2"}
ZoneName == "z1"

RequiredKeys == {"CLOUDFLARE_API_TOKEN", "ZONE_ID", "RECORD_ID"}
SecretKeys == RequiredKeys \cup {"CLOUDFLARE_EMAIL"}

\* The values the caller has configured; an invocation passes any subset of
\* the keys (**secrets).
Configured ==
    [CLOUDFLARE_EMAIL |-> "me@example.com",
     CLOUDFLARE_API_TOKEN |-> "token",
     ZONE_ID |-> ZoneName,
     RECORD_ID |-> "r1"]

SecretsOf(K) == [k \in K |-> Configured[k]]

\* The key sets an invocation is called with: every key, one key left out, none.
SecretSets == {SecretKeys, {}} \cup {SecretKeys \ {k} : k \in SecretKeys}

\* Python's None, and the value of a local that is not bound yet.
None == [none |-> TRUE]

RecordName == [r1 |-> "home.example.com", r2 |-> "www.example.com"]
RecordType == "A"

\* HTTP statuses the lookup service answers with, and the shapes of its body.
Statuses == {200, 500}
BodyKinds == {"ip", "no_ip", "not_json"}

Terminal == {"IN_SYNC", "UPDATED", "ERROR"}

VARIABLES
    pubIp,        \* the host's public IP, as ifconfig.co sees it
    ipChanges,    \* how often pubIp has changed
    store,        \* the provider's records of the zone, by record id
    provider,     \* "cloudflare": records.get answers with the record asked for;
                  \* "double": a test double answering with any record object
    procs,        \* the processes that run update_dns_ip
    invocations,  \* invocations started so far
    pc,           \* per process: position in update_dns_ip
    secrets,      \* per process: the **secrets of the invocation
    strict,       \* per process: raise_for_status
    record,       \* per process: local `record`
    response,     \* per process: local `response` of get_public_ip
    pub_ip_info,  \* per process: local `pub_ip_info`
    result,       \* per process: the value returned
    err,          \* per process: the exception that ended the invocation
    calls,        \* per process: outbound calls issued by the invocation, in order
    applied,      \* per process: writes of the invocation the provider applied
    prevIp        \* per process: IP resolved by the previous invocation when it
                  \* completed without error, else ""

vars == <<pubIp, ipChanges, store, provider, procs, invocations, pc, secrets,
          strict, record, response, pub_ip_info, result, err, calls, applied,
          prevIp>>

env == <<pubIp, ipChanges, store, provider, procs>>

\* ------------------------------------------------------------ pure helpers

\* response.raise_for_status() under the `if raise_for_status:` guard.
\* Faulty variants: the status is never checked; the flag is ignored.
RaiseForStatusNever(flag, status) == FALSE
RaiseForStatusIgnoringFlag(flag, status) == status >= 400
RaiseForStatus(flag, status) == flag /\ status >= 400

\* response.json(): the decoded mapping of a body that is JSON.
Json(kind, ip) ==
    IF kind = "ip" THEN [ip |-> ip] ELSE [error |-> "unavailable"]

\* The keys update_dns_ip subscripts (secrets[...]) while building the client.
\* Faulty variant: the token is read with .get, like the email.
ClientKeysNone == {}
ClientKeys == {"CLOUDFLARE_API_TOKEN"}

\* The keys subscripted while building the arguments of records.get.
FetchKeys == {"ZONE_ID", "RECORD_ID"}

\* `record.content != pub_ip_info["ip"]`
\* Faulty variants: the comparison is dropped either way.
NeedsUpdateAlways(rec, info) == TRUE
NeedsUpdateNever(rec, info) == FALSE
NeedsUpdate(rec, info) == rec.content # info.ip

\* The keyword arguments of cloudflare_client.dns.records.update.
\* Faulty variants: the old content is sent back; name and type are swapped;
\* the record id is passed as the zone.
UpdateArgsStaleContent(s, rec, info) ==
    [op |-> "records.update", zone_id |-> s.ZONE_ID, dns_record_id |-> rec.id,
     name |-> rec.name, type |-> rec.type, content |-> rec.content]
UpdateArgsSwapped(s, rec, info) ==
    [op |-> "records.update", zone_id |-> s.ZONE_ID, dns_record_id |-> rec.id,
     name |-> rec.type, type |-> rec.name, content |-> info.ip]
UpdateArgsWrongZone(s, rec, info) ==
    [op |-> "records.update", zone_id |-> s.RECORD_ID, dns_record_id |-> rec.id,
     name |-> rec.name, type |-> rec.type, content |-> info.ip]
UpdateArgs(s, rec, info) ==
    [op |-> "records.update", zone_id |-> s.ZONE_ID, dns_record_id |-> rec.id,
     name |-> rec.name, type |-> rec.type, content |-> info.ip]

\* ------------------------------------------------------------ the provider

\* Whether the provider holds a record under these identifiers.
ProviderHas(zone, id) == zone = ZoneName /\ id \in RecordIds

\* The record objects records.get may answer with.
FetchedRecords(id) ==
    IF provider = "cloudflare"
    THEN {store[id]}
    ELSE {[store[id] EXCEPT !.id = i] : i \in RecordIds}

\* The record the provider holds after applying an update.
Written(args) ==
    [id |-> args.dns_record_id, name |-> args.name, type |-> args.type,
     content |-> args.content]

\* ------------------------------------------------------------------- Init

InitWith(ps, provs) ==
    /\ pubIp \in IPs
    /\ ipChanges = 0
    /\ \E c \in IPs :
          store = [r \in RecordIds |->
                     [id |-> r, name |-> RecordName[r], type |-> RecordType,
                      content |-> IF r = Configured.RECORD_ID THEN c ELSE "9.9.9.9"]]
    /\ provider \in provs
    /\ procs = ps
    /\ invocations = 0
    /\ pc = [p \in Procs |-> "idle"]
    /\ secrets = [p \in Procs |-> SecretsOf({})]
    /\ strict = [p \in Procs |-> TRUE]
    /\ record = [p \in Procs |-> None]
    /\ response = [p \in Procs |-> None]
    /\ pub_ip_info = [p \in Procs |-> None]
    /\ result = [p \in Procs |-> None]
    /\ err = [p \in Procs |-> ""]
    /\ calls = [p \in Procs |-> <<>>]
    /\ applied = [p \in Procs |-> 0]
    /\ prevIp = [p \in Procs |-> ""]

\* Two processes, the Cloudflare API.
Init == InitWith(Procs, {"cloudflare"})
\* One process, invocations one after the other.
InitSeq == InitWith({"p1"}, {"cloudflare"})
\* One process, the provider a test double or the Cloudflare API.
InitDouble == InitWith({"p1"}, {"cloudflare", "double"})

\* ---------------------------------------------------------------- actions

Raise(p, kind) ==
    /\ pc' = [pc EXCEPT ![p] = "ERROR"]
    /\ err' = [err EXCEPT ![p] = kind]

\* A process calls update_dns_ip(raise_for_status, **secrets).
Invoke(p) ==
    /\ p \in procs
    /\ pc[p] \in {"idle"} \cup Terminal
    /\ invocations < MaxRuns
    /\ invocations' = invocations + 1
    /\ \E K \in SecretSets : secrets' = [secrets EXCEPT ![p] = SecretsOf(K)]
    /\ \E f \in BOOLEAN : strict' = [strict EXCEPT ![p] = f]
    /\ prevIp' = [prevIp EXCEPT ![p] =
                    IF pc[p] \in {"IN_SYNC", "UPDATED"} THEN pub_ip_info[p].ip ELSE ""]
    /\ pc' = [pc EXCEPT ![p] = "client"]
    /\ record' = [record EXCEPT ![p] = None]
    /\ response' = [response EXCEPT ![p] = None]
    /\ pub_ip_info' = [pub_ip_info EXCEPT ![p] = None]
    /\ result' = [result EXCEPT ![p] = None]
    /\ err' = [err EXCEPT ![p] = ""]
    /\ calls' = [calls EXCEPT ![p] = <<>>]
    /\ applied' = [applied EXCEPT ![p] = 0]
    /\ UNCHANGED env

\* cloudflare_client = Cloudflare(api_email=secrets.get(...), api_token=secrets[...], ...)
NewClient(p) ==
    /\ pc[p] = "client"
    /\ IF ClientKeys \subseteq DOMAIN secrets[p]
       THEN pc' = [pc EXCEPT ![p] = "fetch"] /\ UNCHANGED err
       ELSE Raise(p, "KeyError")
    /\ UNCHANGED <<env, invocations, secrets, strict, record, response, pub_ip_info,
                   result, calls, applied, prevIp>>

\* record = cloudflare_client.dns.records.get(zone_id=..., dns_record_id=...)
\* Faulty variant: a provider error of the fetch is swallowed.
FetchRecordSwallow(p) ==
    /\ pc[p] = "fetch"
    /\ IF ~(FetchKeys \subseteq DOMAIN secrets[p])
       THEN /\ Raise(p, "KeyError")
            /\ UNCHANGED <<record, calls>>
       ELSE /\ calls' = [calls EXCEPT ![p] = Append(@,
                   [op |-> "records.get", zone_id |-> secrets[p].ZONE_ID,
                    dns_record_id |-> secrets[p].RECORD_ID])]
            /\ \/ /\ ProviderHas(secrets[p].ZONE_ID, secrets[p].RECORD_ID)
                  /\ \E r \in FetchedRecords(secrets[p].RECORD_ID) :
                        record' = [record EXCEPT ![p] = r]
                  /\ pc' = [pc EXCEPT ![p] = "lookup"]
                  /\ UNCHANGED err
               \/ /\ pc' = [pc EXCEPT ![p] = "lookup"]
                  /\ UNCHANGED <<record, err>>
    /\ UNCHANGED <<env, invocations, secrets, strict, response, pub_ip_info, result,
                   applied, prevIp>>

FetchRecord(p) ==
    /\ pc[p] = "fetch"
    /\ IF ~(FetchKeys \subseteq DOMAIN secrets[p])
       THEN /\ Raise(p, "KeyError")
            /\ UNCHANGED <<record, calls>>
       ELSE /\ calls' = [calls EXCEPT ![p] = Append(@,
                   [op |-> "records.get", zone_id |-> secrets[p].ZONE_ID,
                    dns_record_id |-> secrets[p].RECORD_ID])]
            /\ \/ /\ ProviderHas(secrets[p].ZONE_ID, secrets[p].RECORD_ID)
                  /\ \E r \in FetchedRecords(secrets[p].RECORD_ID) :
                        record' = [record EXCEPT ![p] = r]
                  /\ pc' = [pc EXCEPT ![p] = "lookup"]
                  /\ UNCHANGED err
               \/ /\ Raise(p, "APIError")
                  /\ UNCHANGED record
    /\ UNCHANGED <<env, invocations, secrets, strict, response, pub_ip_info, result,
                   applied, prevIp>>

\* pub_ip_info = get_public_ip(raise_for_status)
GetPublicIp(p) ==
    /\ pc[p] = "lookup"
    /\ calls' = [calls EXCEPT ![p] = Append(@, [op |-> "requests.get"])]
    /\ \/ \* requests.get raises: no response
          /\ Raise(p, "ConnectionError")
          /\ UNCHANGED <<response, pub_ip_info>>
       \/ \E status \in Statuses, kind \in BodyKinds :
             /\ response' = [response EXCEPT ![p] = [status_code |-> status, body |-> kind]]
             /\ IF RaiseForStatus(strict[p], status)
                THEN Raise(p, "HTTPError") /\ UNCHANGED pub_ip_info
                ELSE IF kind = "not_json"
                THEN Raise(p, "JSONDecodeError") /\ UNCHANGED pub_ip_info
                ELSE /\ pub_ip_info' = [pub_ip_info EXCEPT ![p] = Json(kind, pubIp)]
                     /\ pc' = [pc EXCEPT ![p] = "compare"]
                     /\ UNCHANGED err
    /\ UNCHANGED <<env, invocations, secrets, strict, record, result, applied, prevIp>>

\* if record.content != pub_ip_info["ip"]: ... (else the function ends, returning None)
Compare(p) ==
    /\ pc[p] = "compare"
    /\ IF "ip" \notin DOMAIN pub_ip_info[p]
       THEN Raise(p, "KeyError")
       ELSE /\ pc' = [pc EXCEPT ![p] =
                        IF NeedsUpdate(record[p], pub_ip_info[p]) THEN "update" ELSE "IN_SYNC"]
            /\ UNCHANGED err
    /\ UNCHANGED <<env, invocations, secrets, strict, record, response, pub_ip_info,
                   result, calls, applied, prevIp>>

\* return cloudflare_client.dns.records.update(name=..., type=..., ...)
\* Faulty variant: a rejected update is issued again.
UpdateRecordRetrying(p) ==
    /\ pc[p] = "update"
    /\ LET args == UpdateArgs(secrets[p], record[p], pub_ip_info[p]) IN
       /\ calls' = [calls EXCEPT ![p] = Append(@, args)]
       /\ \/ /\ ProviderHas(args.zone_id, args.dns_record_id)
             /\ store' = [store EXCEPT ![args.dns_record_id] = Written(args)]
             /\ applied' = [applied EXCEPT ![p] = @ + 1]
             /\ result' = [result EXCEPT ![p] = Written(args)]
             /\ pc' = [pc EXCEPT ![p] = "UPDATED"]
             /\ UNCHANGED err
          \/ /\ Len(calls[p]) < 4
             /\ UNCHANGED <<store, applied, result, pc, err>>
    /\ UNCHANGED <<pubIp, ipChanges, provider, procs, invocations, secrets, strict,
                   record, response, pub_ip_info, prevIp>>

UpdateRecord(p) ==
    /\ pc[p] = "update"
    /\ LET args == UpdateArgs(secrets[p], record[p], pub_ip_info[p]) IN
       /\ calls' = [calls EXCEPT ![p] = Append(@, args)]
       /\ \/ \* the provider applies the update and answers with the record
             /\ ProviderHas(args.zone_id, args.dns_record_id)
             /\ store' = [store EXCEPT ![args.dns_record_id] = Written(args)]
             /\ applied' = [applied EXCEPT ![p] = @ + 1]
             /\ result' = [result EXCEPT ![p] = Written(args)]
             /\ pc' = [pc EXCEPT ![p] = "UPDATED"]
             /\ UNCHANGED err
          \/ \* the provider rejects the update
             /\ Raise(p, "APIError")
             /\ UNCHANGED <<store, applied, result>>
          \/ \* the provider applies the update and its answer is lost
             /\ ProviderHas(args.zone_id, args.dns_record_id)
             /\ store' = [store EXCEPT ![args.dns_record_id] = Written(args)]
             /\ applied' = [applied EXCEPT ![p] = @ + 1]
             /\ Raise(p, "APIConnectionError")
             /\ UNCHANGED result
    /\ UNCHANGED <<pubIp, ipChanges, provider, procs, invocations, secrets, strict,
                   record, response, pub_ip_info, prevIp>>

\* The ISP hands the host another address.
IpChange ==
    /\ ipChanges < MaxIpChanges
    /\ ipChanges' = ipChanges + 1
    /\ \E ip \in IPs \ {pubIp} : pubIp' = ip
    /\ UNCHANGED <<store, provider, procs, invocations, pc, secrets, strict, record,
                   response, pub_ip_info, result, err, calls, applied, prevIp>>

Next ==
    \/ \E p \in Procs : Invoke(p)
    \/ \E p \in Procs : NewClient(p)
    \/ \E p \in Procs : FetchRecord(p)
    \/ \E p \in Procs : GetPublicIp(p)
    \/ \E p \in Procs : Compare(p)
    \/ \E p \in Procs : UpdateRecord(p)
    \/ IpChange

Spec == Init /\ [][Next]_vars
SpecSeq == InitSeq /\ [][Next]_vars
SpecDouble == InitDouble /\ [][Next]_vars

\* ------------------------------------------------- reading an invocation

\* The update calls the invocation of p has issued.
UpdateCalls(p) == SelectSeq(calls[p], LAMBDA c : c.op = "records.update")

\* The operations the invocation of p has called, in order.
Ops(p) == [i \in 1..Len(calls[p]) |-> calls[p][i].op]

CallOrder == <<"records.get", "requests.get", "records.update">>

\* records.get has answered with a record.
Fetched(p) == "content" \in DOMAIN record[p]

\* requests.get has answered.
Answered(p) == "status_code" \in DOMAIN response[p]

\* get_public_ip has returned a mapping that holds an `ip`.
Resolved(p) == "ip" \in DOMAIN pub_ip_info[p]

\* The invocation of p has ended without an exception.
Completed(p) == pc[p] \in {"IN_SYNC", "UPDATED"}

\* ---------------------------------------------------------------- claims

\* C1: when the fetched record's content equals the resolved IP, the invocation
\* issues no update call and ends returning None.
C1_EqualNeverUpdates ==
    \A p \in Procs :
        (Fetched(p) /\ Resolved(p) /\ record[p].content = pub_ip_info[p].ip) =>
            /\ UpdateCalls(p) = <<>>
            /\ pc[p] \in {"compare", "IN_SYNC"}
            /\ result[p] = None

C1_Witness ==
    \E p \in Procs :
        /\ pc[p] = "IN_SYNC"
        /\ record[p].content = pub_ip_info[p].ip
        /\ result[p] = None

\* C2: when the fetched record's content differs from the resolved IP, the
\* invocation issues exactly one update call, with content the resolved IP and
\* name and type those of the fetched record, and returns the record the
\* provider answered with.
C2_DifferentUpdatesOnce ==
    \A p \in Procs :
        (Fetched(p) /\ Resolved(p) /\ record[p].content # pub_ip_info[p].ip) =>
            /\ pc[p] \in {"compare", "update", "UPDATED", "ERROR"}
            /\ Len(UpdateCalls(p)) = (IF pc[p] \in {"UPDATED", "ERROR"} THEN 1 ELSE 0)
            /\ \A i \in 1..Len(UpdateCalls(p)) :
                  /\ UpdateCalls(p)[i].content = pub_ip_info[p].ip
                  /\ UpdateCalls(p)[i].name = record[p].name
                  /\ UpdateCalls(p)[i].type = record[p].type
            /\ pc[p] = "UPDATED" =>
                  result[p] = [id |-> record[p].id, name |-> record[p].name,
                               type |-> record[p].type, content |-> pub_ip_info[p].ip]
            /\ pc[p] = "ERROR" => err[p] \in {"APIError", "APIConnectionError"}

C2_Witness ==
    \E p \in Procs :
        /\ pc[p] = "UPDATED"
        /\ record[p].content # pub_ip_info[p].ip
        /\ Len(UpdateCalls(p)) = 1
        /\ result[p].content = pub_ip_info[p].ip

C5_NonStrictMissingIp ==
    \A p \in Procs :
        (~strict[p] /\ Answered(p) /\ response[p].status_code >= 400
                    /\ response[p].body = "no_ip") =>
            /\ pub_ip_info[p] = Json("no_ip", pubIp)
            /\ pc[p] \in {"compare", "ERROR"}
            /\ pc[p] = "ERROR" => err[p] = "KeyError"
            /\ pc[p] = "compare" => err[p] = ""
            /\ UpdateCalls(p) = <<>>

C5_Witness ==
    \E p \in Procs :
        /\ ~strict[p] /\ Answered(p) /\ response[p].status_code = 500
        /\ response[p].body = "no_ip"
        /\ pc[p] = "ERROR" /\ err[p] = "KeyError"
        /\ Len(calls[p]) = 2

\* C6: an invocation issues at most one update call; IN_SYNC ends with no
\* write, UPDATED with exactly one applied write, ERROR with an exception; and
\* every stored record is whole (its own id, name and type, a full address).
C6_ZeroOrOneWrite ==
    /\ \A p \in Procs :
          /\ Len(UpdateCalls(p)) \in {0, 1}
          /\ applied[p] <= Len(UpdateCalls(p))
          /\ pc[p] = "IN_SYNC" => (UpdateCalls(p) = <<>> /\ applied[p] = 0 /\ err[p] = "")
          /\ pc[p] = "UPDATED" => (Len(UpdateCalls(p)) = 1 /\ applied[p] = 1 /\ err[p] = "")
          /\ pc[p] = "ERROR" <=> err[p] # ""
    /\ \A r \in RecordIds :
          /\ store[r].id = r
          /\ store[r].name = RecordName[r]
          /\ store[r].type = RecordType
          /\ store[r].content \in IPs \cup {"9.9.9.9"}

C6_Witness ==
    \E p, q \in Procs :
        /\ pc[p] = "UPDATED" /\ applied[p] = 1
        /\ pc[q] = "ERROR" /\ Len(UpdateCalls(q)) = 1

\* C7: when two processes have both completed an invocation without error and
\* resolved the same public IP, the record holds that IP, whatever the
\* interleaving of their fetches, lookups and updates.
C7_ConcurrentSameIp ==
    \A p, q \in Procs :
        (p # q /\ Completed(p) /\ Completed(q)
               /\ pub_ip_info[p].ip = pub_ip_info[q].ip) =>
            store[Configured.RECORD_ID].content = pub_ip_info[p].ip

C7_Witness ==
    \E p, q \in Procs :
        /\ p # q
        /\ pc[p] = "UPDATED" /\ pc[q] = "UPDATED"
        /\ pub_ip_info[p].ip = pub_ip_info[q].ip
        /\ record[p].content # pub_ip_info[p].ip
        /\ record[q].content # pub_ip_info[q].ip

C10_SequentialConvergence ==
    \A p \in procs :
        /\ Completed(p) =>
              store[Configured.RECORD_ID].content = pub_ip_info[p].ip
        /\ (prevIp[p] # "" /\ (Resolved(p) => pub_ip_info[p].ip = prevIp[p])) =>
              /\ UpdateCalls(p) = <<>>
              /\ pc[p] \notin {"update", "UPDATED"}
              /\ Completed(p) => (pc[p] = "IN_SYNC" /\ result[p] = None)

C10_Witness ==
    \E p \in procs :
        /\ prevIp[p] # ""
        /\ pc[p] = "IN_SYNC"
        /\ pub_ip_info[p].ip = prevIp[p]
        /\ result[p] = None

====
